---- MODULE Spec2Model ----
(***************************************************************************)
(* Model of ExpressAdapter (@cmmv/express): the per-request pipeline       *)
(* (global middleware, route middleware wrapper, dispatch function),       *)
(* controller binding, and the HTTP server life cycle.                     *)
(***************************************************************************)
EXTENDS Integers, Sequences, FiniteSets, TLC

\* ---------------------------------------------------------------- bounds
MaxInterceptors == 2
MaxAfterRender == 2
MaxMiddlewares == 2
MaxDelay == 1

VARIABLES
    pc,               \* position of the request in the pipeline
    now,              \* Date.now()
    startTime,        \* handler: const startTime
    requestId,        \* req.requestId (0: not yet assigned)
    reqPath,          \* req.path, by the cases the page middleware tells apart
    debug,            \* req.query.debug is truthy
    httpInterceptors, \* Application.appModule.httpInterceptors.length
    httpAfterRender,  \* Application.appModule.httpAfterRender.length
    routeMiddlewares, \* route.middlewares: [declared, n]
    idx,              \* index of the running for..of loop
    result,           \* handler: const result
    processingTime,   \* handler: const processingTime
    snapshot,         \* handler: const telemetry = Telemetry.getTelemetry(..)
    response,         \* handler: const response
    branch,           \* which success branch is running its after-render loop
    error,            \* the caught error (dispatch catch or wrapper catch)
    outcome,          \* the promise of the dispatch function
    unhandled,        \* a rejection nobody handles (express 4 ignores the promise)
    telemetry,        \* Telemetry records of this request identifier
    events            \* history: every observable call, in order

dispatchVars == <<pc, now, startTime, requestId, reqPath, debug, httpInterceptors,
                  httpAfterRender, routeMiddlewares, idx, result, processingTime,
                  snapshot, response, branch, error, outcome, unhandled,
                  telemetry, events>>

\* controller binding
VARIABLES
    controllers,   \* ControllerRegistry.getControllers(): the metadata, in order
    providersMap,  \* application.providersMap: the names that have an instance
    bound,         \* controllers.forEach: how many controllers have been processed
    instances,     \* the controller instances constructed, with their arguments
    routeTable,    \* the routes registered with the express application, in order
    startupError   \* an error raised by registerControllers

bindVars == <<controllers, providersMap, bound, instances, routeTable, startupError>>

\* the HTTP server
VARIABLES
    httpServer,       \* this.httpServer: "undefined" or "created"
    listening,        \* the server holds a bound handle
    socketState,      \* each connection: "unborn", "open", "destroyed", "closed"
    openConnections,  \* this.openConnections
    closeCalls,       \* every close() call: what it returned and how it settled
    closeListeners,   \* the 'close' listeners httpServer.close(cb) registered
    listenCalls,      \* every listen() call: how its promise settled
    uncaught          \* an 'error' event nobody listens to

lifeVars == <<httpServer, listening, socketState, openConnections, closeCalls,
              closeListeners, listenCalls, uncaught>>

\* pure functions, applied to drawn inputs
VARIABLES
    params,     \* buildRouteArgs: the ParamDescriptor list (route.params)
    routeArgs,  \* buildRouteArgs: what the call gave (threw, args)
    inPrefix,   \* registerControllers: metadata.prefix
    inPath,     \* registerControllers: route.path
    registered  \* registerControllers: the fullPath of the route

pureVars == <<params, routeArgs, inPrefix, inPath, registered>>

\* ---------------------------------------------------------------- values
None == [type |-> "none", message |-> ""]
Err(m) == [type |-> "Error", message |-> m]
\* throw null / throw undefined / a promise rejected without a reason
Nullish == [type |-> "nullish", message |-> ""]
\* what reading .message of null or undefined raises
TypeError == Err("Cannot read properties of undefined (reading 'message')")

Thrown == {Err("boom"), Err(""), Nullish}
MiddlewareErrors == {Err("denied")}

\* what a controller handler can return
ObjectResult == [type |-> "object", truthy |-> TRUE]
StringResult == [type |-> "string", truthy |-> TRUE]
ResponseResult == [type |-> "response", truthy |-> TRUE]
UndefinedResult == [type |-> "undefined", truthy |-> FALSE]
Results == {ObjectResult, StringResult, ResponseResult, UndefinedResult}

NoResult == [type |-> "none", truthy |-> FALSE]
NoResponse == [status |-> 0]

\* AbstractHttpAdapter.isJson (@cmmv/core): structured, i.e. non-primitive and
\* not an HTTP response object
isJson(r) == r.type = "object"

\* ---------------------------------------------------------------- Telemetry
RequestProcess == "Request Process"
ControllerHandler == "Controller Handler"

\* Telemetry.start(label, requestId)
TelemetryStart(t, label) == Append(t, [label |-> label, ended |-> FALSE])

FirstOpen(t, label) ==
    LET open == {i \in 1..Len(t) : t[i].label = label /\ ~t[i].ended}
    IN  IF open = {} THEN 0 ELSE CHOOSE i \in open : \A j \in open : i <= j

\* Telemetry.end(label, requestId)
TelemetryEnd(t, label) ==
    LET i == FirstOpen(t, label)
    IN  IF i = 0 THEN t ELSE [t EXCEPT ![i].ended = TRUE]

\* Telemetry.getTelemetry(requestId)
GetTelemetry(t) == t

\* Telemetry.clearTelemetry(requestId)
ClearedTelemetry == <<>>

Ev(op, arg) == [op |-> op, arg |-> arg]
TCall(call, label) == Ev("telemetry", [call |-> call, label |-> label])

\* ---------------------------------------------------------------- envelopes
\* handler: the success envelope, with requestId and telemetry under debug
SuccessEnvelope(pt, r, dbg, rid, tel) ==
    IF dbg
    THEN [status |-> 200, processingTime |-> pt, data |-> r,
          requestId |-> rid, telemetry |-> tel]
    ELSE [status |-> 200, processingTime |-> pt, data |-> r]

\* mutant: the fallback message is dropped
ErrorMessageNoFallback(e) == e.message

\* error.message || 'Internal Server Error'
ErrorMessage(e) == IF e.message = "" THEN "Internal Server Error" ELSE e.message

\* mutant: the debug fields are added whatever the query says
ErrorEnvelopeAlwaysDebug(pt, e, dbg, rid, tel) ==
    [status |-> 500, processingTime |-> pt, message |-> ErrorMessage(e),
     requestId |-> rid, telemetry |-> tel]

\* handler (catch): the error envelope
ErrorEnvelope(pt, e, dbg, rid, tel) ==
    IF dbg
    THEN [status |-> 500, processingTime |-> pt, message |-> ErrorMessage(e),
          requestId |-> rid, telemetry |-> tel]
    ELSE [status |-> 500, processingTime |-> pt, message |-> ErrorMessage(e)]

Send(http, kind, body) == Ev("send", [http |-> http, kind |-> kind, body |-> body])
CallNext(by, e) == Ev("next", [by |-> by, err |-> e])

config == <<reqPath, debug, httpInterceptors, httpAfterRender, routeMiddlewares>>
locals == <<startTime, result, processingTime, snapshot, response, branch>>

\* ---------------------------------------------------------------- request
DispatchInit ==
    /\ pc = "arrived"
    /\ now = 0
    /\ startTime = 0
    /\ requestId = 0
    /\ reqPath \in {"/", "/index.html", "/items"}
    /\ debug \in BOOLEAN
    /\ httpInterceptors \in 0..MaxInterceptors
    /\ httpAfterRender \in 0..MaxAfterRender
    /\ routeMiddlewares \in
          {[declared |-> FALSE, n |-> 0]} \cup
          {[declared |-> TRUE, n |-> k] : k \in 0..MaxMiddlewares}
    /\ idx = 0
    /\ result = NoResult
    /\ processingTime = 0
    /\ snapshot = <<>>
    /\ response = NoResponse
    /\ branch = "none"
    /\ error = None
    /\ outcome = "none"
    /\ unhandled = FALSE
    /\ telemetry = <<>>
    /\ events = <<>>

\* setMiddleware, first use(): req.requestId = uuidv4(); headers; next()
HeaderMiddleware ==
    /\ pc = "arrived"
    /\ requestId' = 1
    /\ pc' = "page"
    /\ events' = Append(events, CallNext("headers", None))
    /\ UNCHANGED <<now, idx, error, outcome, unhandled, telemetry, config, locals>>
    /\ UNCHANGED <<bindVars, lifeVars, pureVars>>

\* mutant: only the root path is a page
IsPagePathRootOnly(p) == p = "/"

\* req.path.indexOf('.html') === -1 && req.path !== '/'
IsPagePath(p) == p = "/" \/ p = "/index.html"

\* setMiddleware, second use(): starts the 'Request Process' span, answers page
\* paths itself (a rendered file or 404) and passes every other path on
PageMiddleware ==
    /\ pc = "page"
    /\ telemetry' = TelemetryStart(telemetry, RequestProcess)
    /\ IF ~IsPagePath(reqPath)
       THEN /\ events' = events \o <<TCall("start", RequestProcess),
                                     CallNext("page", None)>>
            /\ pc' = "route"
       ELSE /\ \E fileFound \in BOOLEAN :
                 events' = events \o
                     <<TCall("start", RequestProcess),
                       IF fileFound
                       THEN Send(200, "render", [page |-> reqPath])
                       ELSE Send(404, "text", [text |-> "Page not found"])>>
            /\ pc' = "done"
    /\ UNCHANGED <<now, requestId, idx, error, outcome, unhandled, config, locals>>
    /\ UNCHANGED <<bindVars, lifeVars, pureVars>>

\* express calls the callback registered for the route: the wrapper when
\* route.middlewares is truthy, the dispatch function otherwise
RouteMatched ==
    /\ pc = "route"
    /\ IF routeMiddlewares.declared
       THEN pc' = "middlewares" /\ idx' = 1
       ELSE pc' = "dispatch" /\ idx' = 0
    /\ UNCHANGED <<now, requestId, error, outcome, unhandled, telemetry, events,
                   config, locals>>
    /\ UNCHANGED <<bindVars, lifeVars, pureVars>>

\* mutant: the completion callback resolves whatever it is given
RunMiddlewareIgnoringError ==
    /\ pc = "middlewares"
    /\ idx <= routeMiddlewares.n
    /\ \E err \in {None} \cup MiddlewareErrors :
         /\ events' = Append(events, Ev("middleware", [i |-> idx, err |-> err]))
         /\ idx' = idx + 1
    /\ UNCHANGED <<pc, error, now, requestId, outcome, unhandled, telemetry, config,
                   locals>>
    /\ UNCHANGED <<bindVars, lifeVars, pureVars>>

\* wrapper: await new Promise(... middleware(req, res, err => ...))
RunMiddleware ==
    /\ pc = "middlewares"
    /\ idx <= routeMiddlewares.n
    /\ \E err \in {None} \cup MiddlewareErrors :
         /\ events' = Append(events, Ev("middleware", [i |-> idx, err |-> err]))
         /\ IF err = None
            THEN /\ idx' = idx + 1
                 /\ pc' = pc
                 /\ error' = error
            ELSE /\ idx' = idx
                 /\ pc' = "wrapperCatch"
                 /\ error' = err
    /\ UNCHANGED <<now, requestId, outcome, unhandled, telemetry, config, locals>>
    /\ UNCHANGED <<bindVars, lifeVars, pureVars>>

\* mutant: the handler is not held back until the loop is over
WrapperCallsHandlerEarly ==
    /\ pc = "middlewares"
    /\ pc' = "dispatch"
    /\ idx' = 0
    /\ UNCHANGED <<now, requestId, error, outcome, unhandled, telemetry, events,
                   config, locals>>
    /\ UNCHANGED <<bindVars, lifeVars, pureVars>>

\* wrapper: await handler(req, res, next)
WrapperCallsHandler ==
    /\ pc = "middlewares"
    /\ idx > routeMiddlewares.n
    /\ pc' = "dispatch"
    /\ idx' = 0
    /\ UNCHANGED <<now, requestId, error, outcome, unhandled, telemetry, events,
                   config, locals>>
    /\ UNCHANGED <<bindVars, lifeVars, pureVars>>

\* wrapper (catch): console.error(...); next(error)
WrapperCatch ==
    /\ pc = "wrapperCatch"
    /\ events' = Append(events, CallNext("wrapper", error))
    /\ pc' = "done"
    /\ UNCHANGED <<now, requestId, idx, error, outcome, unhandled, telemetry,
                   config, locals>>
    /\ UNCHANGED <<bindVars, lifeVars, pureVars>>

\* ---------------------------------------------------------------- dispatch
\* mutant: the interceptor loop is never entered
DispatchStartSkippingInterceptors ==
    /\ pc = "dispatch"
    /\ startTime' = now
    /\ outcome' = "pending"
    /\ pc' = "invoke"
    /\ idx' = 0
    /\ UNCHANGED <<now, requestId, error, unhandled, telemetry, events, config,
                   result, processingTime, snapshot, response, branch>>
    /\ UNCHANGED <<bindVars, lifeVars, pureVars>>

\* handler: const startTime = Date.now(); req.contextId = md5(...); the
\* interceptor loop is entered only if there are interceptors
DispatchStart ==
    /\ pc = "dispatch"
    /\ startTime' = now
    /\ outcome' = "pending"
    /\ IF httpInterceptors > 0
       THEN pc' = "interceptors" /\ idx' = 1
       ELSE pc' = "invoke" /\ idx' = 0
    /\ UNCHANGED <<now, requestId, error, unhandled, telemetry, events, config,
                   result, processingTime, snapshot, response, branch>>
    /\ UNCHANGED <<bindVars, lifeVars, pureVars>>

\* mutant: the result of the interceptor is not looked at
RunInterceptorIgnoringBreak ==
    /\ pc = "interceptors"
    /\ idx <= httpInterceptors
    /\ \E breakProcess \in BOOLEAN :
         events' = Append(events, Ev("interceptor",
                          [i |-> idx, threw |-> FALSE, value |-> breakProcess]))
    /\ IF idx < httpInterceptors
       THEN pc' = pc /\ idx' = idx + 1
       ELSE pc' = "invoke" /\ idx' = 0
    /\ UNCHANGED <<now, requestId, error, outcome, unhandled, telemetry, config,
                   locals>>
    /\ UNCHANGED <<bindVars, lifeVars, pureVars>>

\* handler: const breakProcess = await interceptor(...); if (breakProcess) return;
RunInterceptor ==
    /\ pc = "interceptors"
    /\ idx <= httpInterceptors
    /\ \/ \E breakProcess \in BOOLEAN :
            /\ events' = Append(events, Ev("interceptor",
                                 [i |-> idx, threw |-> FALSE, value |-> breakProcess]))
            /\ IF breakProcess
               THEN pc' = "settled" /\ outcome' = "returned" /\ idx' = idx
               ELSE /\ outcome' = outcome
                    /\ IF idx < httpInterceptors
                       THEN pc' = pc /\ idx' = idx + 1
                       ELSE pc' = "invoke" /\ idx' = 0
            /\ error' = error
       \/ \E e \in Thrown :
            /\ events' = Append(events, Ev("interceptor",
                                 [i |-> idx, threw |-> TRUE, value |-> e]))
            /\ error' = e
            /\ pc' = "catch"
            /\ UNCHANGED <<idx, outcome>>
    /\ UNCHANGED <<now, requestId, unhandled, telemetry, config, locals>>
    /\ UNCHANGED <<bindVars, lifeVars, pureVars>>

\* handler: buildRouteArgs(...); Telemetry.start('Controller Handler', ..);
\* instance[route.handlerName](...args)
InvokeHandler ==
    /\ pc = "invoke"
    /\ telemetry' = TelemetryStart(telemetry, ControllerHandler)
    /\ events' = events \o <<TCall("start", ControllerHandler), Ev("handler", 0)>>
    /\ pc' = "handler"
    /\ UNCHANGED <<now, requestId, idx, error, outcome, unhandled, config, locals>>
    /\ UNCHANGED <<bindVars, lifeVars, pureVars>>

\* mutant: the truthiness test comes first
ClassifyTruthyFirst(r) ==
    IF r.truthy THEN "raw" ELSE IF isJson(r) THEN "json" ELSE "none"

\* handler: the branch taken for a result: this.isJson(result), else if (result)
Classify(r) ==
    IF isJson(r) THEN "json" ELSE IF r.truthy THEN "raw" ELSE "none"

\* handler: the awaited handler returns r; both spans are ended, the snapshot
\* is taken and the result is classified
HandlerReturns ==
    /\ pc = "handler"
    /\ \E r \in Results, d \in 0..MaxDelay :
         LET ended == TelemetryEnd(TelemetryEnd(telemetry, ControllerHandler),
                                   RequestProcess)
         IN  /\ now' = now + d
             /\ result' = r
             /\ telemetry' = ended
             /\ processingTime' = now' - startTime
             /\ snapshot' = GetTelemetry(ended)
             /\ branch' = Classify(r)
             /\ response' = IF Classify(r) = "json"
                            THEN SuccessEnvelope(now' - startTime, r, debug,
                                                 requestId, GetTelemetry(ended))
                            ELSE response
             /\ IF Classify(r) = "none"
                THEN pc' = "clear" /\ idx' = 0
                ELSE pc' = "afterRender" /\ idx' = 1
             /\ events' = events \o <<Ev("settled", [threw |-> FALSE, value |-> r]),
                                      TCall("end", ControllerHandler),
                                      TCall("end", RequestProcess),
                                      TCall("get", RequestProcess)>>
    /\ UNCHANGED <<requestId, error, outcome, unhandled, startTime, config>>
    /\ UNCHANGED <<bindVars, lifeVars, pureVars>>

\* handler: the awaited handler throws (or its promise rejects)
HandlerThrows ==
    /\ pc = "handler"
    /\ \E e \in Thrown, d \in 0..MaxDelay :
         /\ now' = now + d
         /\ error' = e
         /\ events' = Append(events, Ev("settled", [threw |-> TRUE, value |-> e]))
    /\ pc' = "catch"
    /\ UNCHANGED <<requestId, idx, outcome, unhandled, telemetry, config, locals>>
    /\ UNCHANGED <<bindVars, lifeVars, pureVars>>

\* handler: the content handed to the after-render hooks of a success branch
Content == IF branch = "json" THEN response ELSE result

\* handler: await afterRender(..., {req, res, next, handler, content})
RunAfterRender ==
    /\ pc = "afterRender"
    /\ idx <= httpAfterRender
    /\ \E d \in 0..MaxDelay :
         /\ now' = now + d
         /\ \/ /\ events' = Append(events, Ev("afterRender",
                                [i |-> idx, content |-> Content, threw |-> FALSE,
                                 value |-> None]))
               /\ idx' = idx + 1
               /\ UNCHANGED <<pc, error>>
            \/ \E e \in Thrown :
                 /\ events' = Append(events, Ev("afterRender",
                                [i |-> idx, content |-> Content, threw |-> TRUE,
                                 value |-> e]))
                 /\ error' = e
                 /\ pc' = "catch"
                 /\ idx' = idx
    /\ UNCHANGED <<requestId, outcome, unhandled, telemetry, config, locals>>
    /\ UNCHANGED <<bindVars, lifeVars, pureVars>>

\* mutant: the second branch is an if, not an else if, so a structured result
\* is sent by both
SendSuccessTwice ==
    /\ pc = "afterRender"
    /\ idx > httpAfterRender
    /\ events' = events \o
                   (IF branch = "json"
                    THEN <<Send(200, "json", response), Send(200, "raw", [raw |-> result])>>
                    ELSE <<Send(200, "raw", [raw |-> result])>>)
    /\ pc' = "clear"
    /\ UNCHANGED <<now, requestId, idx, error, outcome, unhandled, telemetry,
                   config, locals>>
    /\ UNCHANGED <<bindVars, lifeVars, pureVars>>

\* mutant: the success response is sent and the catch block still runs
SendSuccessThenThrows ==
    /\ pc = "afterRender"
    /\ idx > httpAfterRender
    /\ events' = Append(events,
                        IF branch = "json"
                        THEN Send(200, "json", response)
                        ELSE Send(200, "raw", [raw |-> result]))
    /\ error' = Err("boom")
    /\ pc' = "catch"
    /\ UNCHANGED <<now, requestId, idx, outcome, unhandled, telemetry,
                   config, locals>>
    /\ UNCHANGED <<bindVars, lifeVars, pureVars>>

\* handler: res.json(response) / res.status(200).send(result)
SendSuccess ==
    /\ pc = "afterRender"
    /\ idx > httpAfterRender
    /\ events' = Append(events,
                        IF branch = "json"
                        THEN Send(200, "json", response)
                        ELSE Send(200, "raw", [raw |-> result]))
    /\ pc' = "clear"
    /\ UNCHANGED <<now, requestId, idx, error, outcome, unhandled, telemetry,
                   config, locals>>
    /\ UNCHANGED <<bindVars, lifeVars, pureVars>>

\* handler (catch): ends 'Request Process', takes the snapshot, reads
\* error.message (a TypeError when the caught value is null or undefined, which
\* leaves the function as a rejection) and sends the 500 envelope
Catch ==
    /\ pc = "catch"
    /\ telemetry' = TelemetryEnd(telemetry, RequestProcess)
    /\ processingTime' = now - startTime
    /\ snapshot' = GetTelemetry(telemetry')
    /\ IF error.type = "nullish"
       THEN /\ error' = TypeError
            /\ outcome' = "rejected"
            /\ pc' = "settled"
            /\ response' = response
            /\ events' = events \o <<TCall("end", RequestProcess),
                                     TCall("get", RequestProcess)>>
       ELSE /\ response' = ErrorEnvelope(now - startTime, error, debug, requestId,
                                         GetTelemetry(telemetry'))
            /\ events' = events \o <<TCall("end", RequestProcess),
                                     TCall("get", RequestProcess),
                                     Send(500, "json", response')>>
            /\ pc' = "clear"
            /\ UNCHANGED <<error, outcome>>
    /\ UNCHANGED <<now, requestId, idx, unhandled, config, startTime, result, branch>>
    /\ UNCHANGED <<bindVars, lifeVars, pureVars>>

\* handler: Telemetry.clearTelemetry(req.requestId), the last statement
ClearTelemetry ==
    /\ pc = "clear"
    /\ telemetry' = ClearedTelemetry
    /\ events' = Append(events, TCall("clear", RequestProcess))
    /\ outcome' = "returned"
    /\ pc' = "settled"
    /\ UNCHANGED <<now, requestId, idx, error, unhandled, config, locals>>
    /\ UNCHANGED <<bindVars, lifeVars, pureVars>>

\* the promise of the dispatch function settles: the wrapper awaits it (a
\* rejection goes to its catch), express 4 ignores it for a route without
\* middlewares (a rejection stays unhandled)
DispatchSettled ==
    /\ pc = "settled"
    /\ IF outcome = "rejected"
       THEN IF routeMiddlewares.declared
            THEN pc' = "wrapperCatch" /\ unhandled' = unhandled
            ELSE pc' = "done" /\ unhandled' = TRUE
       ELSE pc' = "done" /\ unhandled' = unhandled
    /\ UNCHANGED <<now, requestId, idx, error, outcome, telemetry, events, config,
                   locals>>
    /\ UNCHANGED <<bindVars, lifeVars, pureVars>>

DispatchNext ==
    \/ HeaderMiddleware
    \/ PageMiddleware
    \/ RouteMatched
    \/ RunMiddleware
    \/ WrapperCallsHandler
    \/ WrapperCatch
    \/ DispatchStart
    \/ RunInterceptor
    \/ InvokeHandler
    \/ HandlerReturns
    \/ HandlerThrows
    \/ RunAfterRender
    \/ SendSuccess
    \/ Catch
    \/ ClearTelemetry
    \/ DispatchSettled

\* ---------------------------------------------------------------- binding
MaxControllers == 2
MaxRoutes == 2

Undefined == "undefined"

\* route.method.toLowerCase()
toLowerCase(m) ==
    CASE m = "GET" -> "get"
      [] m = "POST" -> "post"
      [] m = "FOO" -> "foo"
      [] m = "X-Token" -> "x-token"
      [] OTHER -> m

\* this.instance[method]: the routing methods an express application has
ExpressMethods == {"get", "post", "put", "delete", "patch", "head", "options", "all"}

\* `/${prefix}${route.path ? '/' + route.path : ''}`, strings as character tuples
fullPath(prefix, path) ==
    <<"/">> \o prefix \o (IF path # <<>> THEN <<"/">> \o path ELSE <<>>)

\* this.application.providersMap.get(paramType.name)
ProviderGet(map, name) == IF name \in map THEN name ELSE Undefined

\* paramTypes.map(paramType => providersMap.get(paramType.name))
ResolveInstances(map, paramTypes) ==
    [k \in 1..Len(paramTypes) |-> ProviderGet(map, paramTypes[k])]

\* mutant: a later route is registered ahead of the earlier ones
RECURSIVE RegisterRoutesPrepending(_, _, _, _)
RegisterRoutesPrepending(table, c, metadata, j) ==
    IF j > Len(metadata.routes) THEN table
    ELSE LET route == metadata.routes[j]
             method == toLowerCase(route.method)
             entry == [method |-> method,
                       path |-> fullPath(metadata.prefix, route.path),
                       controller |-> c, route |-> j,
                       wrapped |-> route.middlewares]
         IN  RegisterRoutesPrepending(IF method \in ExpressMethods
                                      THEN <<entry>> \o table ELSE table,
                                      c, metadata, j + 1)

\* routes.forEach(route => { if (this.instance[method]) this.instance[method](fullPath, ..) })
RECURSIVE RegisterRoutes(_, _, _, _)
RegisterRoutes(table, c, metadata, j) ==
    IF j > Len(metadata.routes) THEN table
    ELSE LET route == metadata.routes[j]
             method == toLowerCase(route.method)
             entry == [method |-> method,
                       path |-> fullPath(metadata.prefix, route.path),
                       controller |-> c, route |-> j,
                       wrapped |-> route.middlewares]
         IN  RegisterRoutes(IF method \in ExpressMethods THEN Append(table, entry)
                            ELSE table,
                            c, metadata, j + 1)

RouteChoices ==
    {[method |-> "GET", path |-> <<"x">>, middlewares |-> FALSE],
     [method |-> "POST", path |-> <<>>, middlewares |-> TRUE],
     [method |-> "FOO", path |-> <<"x">>, middlewares |-> FALSE]}

SeqsUpTo(S, n) == UNION {[1..k -> S] : k \in 0..n}

ControllerChoices ==
    [paramTypes : {<<>>, <<"A", "B">>}, prefix : {<<"a">>},
     routes : SeqsUpTo(RouteChoices, MaxRoutes)]

BindInit ==
    /\ controllers \in SeqsUpTo(ControllerChoices, MaxControllers)
    /\ providersMap \in {{"A"}, {"A", "B"}}
    /\ bound = 0
    /\ instances = <<>>
    /\ routeTable = <<>>
    /\ startupError = "none"

BindIdle ==
    /\ controllers = <<>>
    /\ providersMap = {}
    /\ bound = 0
    /\ instances = <<>>
    /\ routeTable = <<>>
    /\ startupError = "none"

\* registerControllers: one iteration of controllers.forEach, for the next
\* controller of the registry
BindController ==
    /\ bound < Len(controllers)
    /\ LET c == bound + 1
           metadata == controllers[c]
           args == ResolveInstances(providersMap, metadata.paramTypes)
       IN  /\ instances' = Append(instances, [controller |-> c, args |-> args])
           /\ routeTable' = RegisterRoutes(routeTable, c, metadata, 1)
           /\ bound' = c
    /\ UNCHANGED <<controllers, providersMap, startupError>>
    /\ UNCHANGED <<dispatchVars, lifeVars, pureVars>>

\* ---------------------------------------------------------------- life cycle
MaxSockets == 2
MaxCloses == 2
MaxListens == 2

Sockets == 1..MaxSockets

LifeInit ==
    /\ httpServer = "undefined"
    /\ listening = FALSE
    /\ socketState = [s \in Sockets |-> "unborn"]
    /\ openConnections = {}
    /\ closeCalls = <<>>
    /\ closeListeners = <<>>
    /\ listenCalls = <<>>
    /\ uncaught = FALSE

\* initHttpServer: http.createServer(this.instance); trackOpenConnections()
InitHttpServer ==
    /\ httpServer = "undefined"
    /\ httpServer' = "created"
    /\ UNCHANGED <<listening, socketState, openConnections, closeCalls,
                   closeListeners, listenCalls, uncaught>>
    /\ UNCHANGED <<dispatchVars, bindVars, pureVars>>

\* the bind strings, as the segments between ':'
Binds == {<<"0.0.0.0", "3000">>, <<"localhost", "8080">>}

\* parseInt(port, 10)
parseInt(p) == CASE p = "3000" -> 3000 [] p = "8080" -> 8080 [] OTHER -> -1

\* listen: const [host, port] = bind.split(':')
ParseBind(bind) == [host |-> bind[1], port |-> parseInt(bind[2])]

\* listen: httpServer.listen(port, host, cb) registers cb for 'listening', so
\* the promise resolves once the server is bound; a bind failure is an 'error'
\* event, which nothing listens to: cb never runs and the promise stays pending
Listen ==
    /\ httpServer = "created"
    /\ ~listening
    /\ Len(listenCalls) < MaxListens
    /\ \E bind \in Binds, bindOk \in BOOLEAN :
         IF bindOk
         THEN /\ listening' = TRUE
              /\ listenCalls' = Append(listenCalls,
                    [bind |-> bind, address |-> ParseBind(bind), bound |-> TRUE,
                     settled |-> "resolved"])
              /\ uncaught' = uncaught
         ELSE /\ listening' = listening
              /\ listenCalls' = Append(listenCalls,
                    [bind |-> bind, address |-> ParseBind(bind), bound |-> FALSE,
                     settled |-> "pending"])
              /\ uncaught' = TRUE
    /\ UNCHANGED <<httpServer, socketState, openConnections, closeCalls,
                   closeListeners>>
    /\ UNCHANGED <<dispatchVars, bindVars, pureVars>>

\* trackOpenConnections: the 'connection' listener
Connection(s) ==
    /\ listening
    /\ socketState[s] = "unborn"
    /\ socketState' = [socketState EXCEPT ![s] = "open"]
    /\ openConnections' = openConnections \cup {s}
    /\ UNCHANGED <<httpServer, listening, closeCalls, closeListeners, listenCalls,
                   uncaught>>
    /\ UNCHANGED <<dispatchVars, bindVars, pureVars>>

\* trackOpenConnections: the socket's 'close' listener; the event follows the
\* end of the connection or a destroy()
SocketClose(s) ==
    /\ socketState[s] \in {"open", "destroyed"}
    /\ socketState' = [socketState EXCEPT ![s] = "closed"]
    /\ openConnections' = openConnections \ {s}
    /\ UNCHANGED <<httpServer, listening, closeCalls, closeListeners, listenCalls,
                   uncaught>>
    /\ UNCHANGED <<dispatchVars, bindVars, pureVars>>

\* mutant: the sockets are destroyed but stay in the set
RECURSIVE closeOpenConnectionsKeeping(_, _)
closeOpenConnectionsKeeping(conns, state) ==
    [openConnections |-> conns,
     socketState |-> [s \in Sockets |-> IF s \in conns THEN "destroyed" ELSE state[s]]]

\* closeOpenConnections: for (const socket of this.openConnections)
\*   { socket.destroy(); this.openConnections.delete(socket); }
RECURSIVE closeOpenConnections(_, _)
closeOpenConnections(conns, state) ==
    IF conns = {}
    THEN [openConnections |-> conns, socketState |-> state]
    ELSE LET socket == CHOOSE s \in conns : TRUE
         IN  closeOpenConnections(conns \ {socket},
                                  [state EXCEPT ![socket] = "destroyed"])

\* connected(): this.instance.enabled, which on an express application is the
\* method app.enabled, a function and so always truthy
connected == TRUE

\* close: closeOpenConnections(), then undefined without a server, else a
\* promise settled by the callback of httpServer.close (which is given
\* ERR_SERVER_NOT_RUNNING when the server held no handle). Each call is logged
\* with the set before (tracked) and after (left) closeOpenConnections, which
\* is the set at the moment httpServer.close is called.
Close ==
    /\ Len(closeCalls) < MaxCloses
    /\ LET after == closeOpenConnections(openConnections, socketState)
           call == [tracked |-> openConnections,
                    left |-> after.openConnections,
                    destroyed |-> {s \in Sockets : after.socketState[s] = "destroyed"},
                    wasListening |-> listening]
       IN  /\ openConnections' = after.openConnections
           /\ socketState' = after.socketState
           /\ IF httpServer = "undefined"
              THEN /\ closeCalls' = Append(closeCalls, call @@ [settled |-> "undefined"])
                   /\ UNCHANGED <<closeListeners, listening>>
              ELSE IF connected
              THEN /\ closeCalls' = Append(closeCalls, call @@ [settled |-> "pending"])
                   /\ closeListeners' =
                         Append(closeListeners,
                                [call |-> Len(closeCalls) + 1, notRunning |-> ~listening])
                   /\ listening' = FALSE
              ELSE /\ closeCalls' = Append(closeCalls, call @@ [settled |-> "resolved"])
                   /\ UNCHANGED <<closeListeners, listening>>
    /\ UNCHANGED <<httpServer, listenCalls, uncaught>>
    /\ UNCHANGED <<dispatchVars, bindVars, pureVars>>

\* the server's 'close' event, emitted once it holds no handle and no
\* connection: every registered callback runs, with an error if the server was
\* not running when close was called
ServerEmitsClose ==
    /\ closeListeners # <<>>
    /\ ~listening
    /\ \A s \in Sockets : socketState[s] \in {"unborn", "closed"}
    /\ closeCalls' =
          [k \in 1..Len(closeCalls) |->
              IF \E j \in 1..Len(closeListeners) : closeListeners[j].call = k
              THEN LET l == CHOOSE j \in 1..Len(closeListeners) :
                               closeListeners[j].call = k
                   IN  [closeCalls[k] EXCEPT !.settled =
                           IF closeListeners[l].notRunning THEN "rejected"
                           ELSE "resolved"]
              ELSE closeCalls[k]]
    /\ closeListeners' = <<>>
    /\ UNCHANGED <<httpServer, listening, socketState, openConnections, listenCalls,
                   uncaught>>
    /\ UNCHANGED <<dispatchVars, bindVars, pureVars>>

LifeNext ==
    \/ InitHttpServer
    \/ Listen
    \/ \E s \in Sockets : Connection(s)
    \/ \E s \in Sockets : SocketClose(s)
    \/ Close
    \/ ServerEmitsClose

\* ---------------------------------------------------------------- buildRouteArgs
MaxParams == 2
MaxIndex == 2

\* the request, response and next handed to buildRouteArgs
Req ==
    [body |-> "BODY", params |-> [id |-> "42"], query |-> [q |-> "foo"],
     headers |-> [x_token |-> "tok"], session |-> "SESSION", user |-> "USER",
     ip |-> "127.0.0.1", hosts |-> "HOSTS"]

\* req.params[paramName]
ReqParam(name) == IF name = "id" THEN Req.params.id ELSE Undefined
\* req.query[paramName]
ReqQuery(name) == IF name = "q" THEN Req.query.q ELSE Undefined
\* req.headers[name]: node keeps header names in lower case
ReqHeader(name) == IF name = "x-token" THEN Req.headers.x_token ELSE Undefined

\* param.paramType, as the segments between ':'
ParamTypes ==
    {<<"body">>, <<"param", "id">>, <<"query", "q">>, <<"queries">>,
     <<"header", "X-Token">>, <<"headers">>, <<"request">>, <<"response">>,
     <<"next">>, <<"session">>, <<"user">>, <<"ip">>, <<"hosts">>,
     <<"cookie", "sid">>, <<"bogus">>}

KnownKinds ==
    {"body", "param", "query", "queries", "header", "headers", "request",
     "response", "next", "session", "user", "ip", "hosts"}

\* mutant: an unknown kind is an error
ResolveDefaultThrows == [threw |-> TRUE, value |-> Undefined]

\* buildRouteArgs: default: args[param.index] = undefined
ResolveDefault == [threw |-> FALSE, value |-> Undefined]

\* buildRouteArgs: the switch on paramType; what is assigned to args[index]
ResolveParam(paramType, paramName) ==
    CASE paramType = "body" -> [threw |-> FALSE, value |-> Req.body]
      [] paramType = "param" -> [threw |-> FALSE, value |-> ReqParam(paramName)]
      [] paramType = "query" -> [threw |-> FALSE, value |-> ReqQuery(paramName)]
      [] paramType = "queries" -> [threw |-> FALSE, value |-> "QUERY"]
      [] paramType = "header" ->
            IF paramName = Undefined
            THEN [threw |-> TRUE, value |-> Undefined]
            ELSE [threw |-> FALSE, value |-> ReqHeader(toLowerCase(paramName))]
      [] paramType = "headers" -> [threw |-> FALSE, value |-> "HEADERS"]
      [] paramType = "request" -> [threw |-> FALSE, value |-> "REQ"]
      [] paramType = "response" -> [threw |-> FALSE, value |-> "RES"]
      [] paramType = "next" -> [threw |-> FALSE, value |-> "NEXT"]
      [] paramType = "session" -> [threw |-> FALSE, value |-> Req.session]
      [] paramType = "user" -> [threw |-> FALSE, value |-> Req.user]
      [] paramType = "ip" -> [threw |-> FALSE, value |-> Req.ip]
      [] paramType = "hosts" -> [threw |-> FALSE, value |-> Req.hosts]
      [] OTHER -> ResolveDefault

\* mutant: the value is pushed, in the order of the list
ArrayPush(a, index, v) == Append(a, v)

\* args[index] = v on a JavaScript array: the array grows to index + 1 and the
\* elements never assigned read as undefined
ArraySet(a, index, v) ==
    [k \in 1..(IF Len(a) > index + 1 THEN Len(a) ELSE index + 1) |->
        IF k = index + 1 THEN v
        ELSE IF k <= Len(a) THEN a[k] ELSE Undefined]

\* buildRouteArgs: params?.forEach(param => { const [paramType, paramName] =
\* param.paramType.split(':'); switch ... })
RECURSIVE buildRouteArgsFrom(_, _, _)
buildRouteArgsFrom(list, i, a) ==
    IF i > Len(list) THEN [threw |-> FALSE, args |-> a, done |-> TRUE]
    ELSE LET param == list[i]
             paramType == param.paramType[1]
             paramName == IF Len(param.paramType) > 1 THEN param.paramType[2]
                          ELSE Undefined
             r == ResolveParam(paramType, paramName)
         IN  IF r.threw THEN [threw |-> TRUE, args |-> <<>>, done |-> TRUE]
             ELSE buildRouteArgsFrom(list, i + 1, ArraySet(a, param.index, r.value))

buildRouteArgs(list) == buildRouteArgsFrom(list, 1, <<>>)

Descriptors == [index : 0..MaxIndex, paramType : ParamTypes]

\* the descriptor lists: one descriptor per parameter position, in any order
ParamLists ==
    {l \in SeqsUpTo(Descriptors, MaxParams) :
        \A i, j \in 1..Len(l) : i # j => l[i].index # l[j].index}

NoArgs == [threw |-> FALSE, args |-> <<>>, done |-> FALSE]

ArgsInit ==
    /\ params \in ParamLists
    /\ routeArgs = NoArgs

ArgsIdle ==
    /\ params = <<>>
    /\ routeArgs = NoArgs

\* handler: const args = this.buildRouteArgs(req, res, next, route.params)
BuildArgs ==
    /\ ~routeArgs.done
    /\ routeArgs' = buildRouteArgs(params)
    /\ UNCHANGED <<params, inPrefix, inPath, registered>>
    /\ UNCHANGED <<dispatchVars, bindVars, lifeVars>>

\* ---------------------------------------------------------------- fullPath
MaxLen == 3

PathChars == {"/", "a"}

PathInit ==
    /\ inPrefix \in SeqsUpTo(PathChars, MaxLen)
    /\ inPath \in SeqsUpTo(PathChars, MaxLen)
    /\ registered = <<>>

PathIdle ==
    /\ inPrefix = <<>>
    /\ inPath = <<>>
    /\ registered = <<>>

\* registerControllers: const fullPath = ...; this.instance[method](fullPath, ..)
RegisterPath ==
    /\ registered = <<>>
    /\ registered' = fullPath(inPrefix, inPath)
    /\ UNCHANGED <<params, routeArgs, inPrefix, inPath>>
    /\ UNCHANGED <<dispatchVars, bindVars, lifeVars>>

\* ---------------------------------------------------------------- specifications
DispatchIdle ==
    /\ pc = "idle"
    /\ now = 0
    /\ startTime = 0
    /\ requestId = 0
    /\ reqPath = "/items"
    /\ debug = FALSE
    /\ httpInterceptors = 0
    /\ httpAfterRender = 0
    /\ routeMiddlewares = [declared |-> FALSE, n |-> 0]
    /\ idx = 0
    /\ result = NoResult
    /\ processingTime = 0
    /\ snapshot = <<>>
    /\ response = NoResponse
    /\ branch = "none"
    /\ error = None
    /\ outcome = "none"
    /\ unhandled = FALSE
    /\ telemetry = <<>>
    /\ events = <<>>

vars == <<dispatchVars, bindVars, lifeVars, pureVars>>

\* one request through the pipeline
Init == DispatchInit /\ BindIdle /\ LifeInit /\ ArgsIdle /\ PathIdle
Spec == Init /\ [][DispatchNext]_vars

\* registerControllers over a registry
InitBind == DispatchIdle /\ BindInit /\ LifeInit /\ ArgsIdle /\ PathIdle
NextBind == BindController
SpecBind == InitBind /\ [][NextBind]_vars

\* the server: initHttpServer, listen, connections, close
InitLifecycle == DispatchIdle /\ BindIdle /\ LifeInit /\ ArgsIdle /\ PathIdle
SpecLifecycle == InitLifecycle /\ [][LifeNext]_vars

\* buildRouteArgs over the descriptor lists
InitArgs == DispatchIdle /\ BindIdle /\ LifeInit /\ ArgsInit /\ PathIdle
NextArgs == BuildArgs
SpecArgs == InitArgs /\ [][NextArgs]_vars

\* fullPath over prefixes and sub-paths
InitPath == DispatchIdle /\ BindIdle /\ LifeInit /\ ArgsIdle /\ PathInit
NextPath == RegisterPath
SpecPath == InitPath /\ [][NextPath]_vars

\* ---------------------------------------------------------------- observations
IsDispatchSend(e) == e.op = "send" /\ e.arg.kind \in {"json", "raw"}
IsHandlerCall(e) == e.op = "handler"
IsAfterRender(e) == e.op = "afterRender"
IsMiddleware(e) == e.op = "middleware"
IsWrapperNext(e) == e.op = "next" /\ e.arg.by = "wrapper"
IsThrow(e) == e.op \in {"interceptor", "settled", "afterRender"} /\ e.arg.threw

DispatchSends == SelectSeq(events, IsDispatchSend)
HandlerCalls == Len(SelectSeq(events, IsHandlerCall))
AfterRenderCalls == SelectSeq(events, IsAfterRender)
MiddlewareCalls == SelectSeq(events, IsMiddleware)
WrapperNexts == SelectSeq(events, IsWrapperNext)

Finished == outcome \in {"returned", "rejected"}
\* an interceptor returned a truthy value
Broke ==
    \E k \in 1..Len(events) :
        /\ events[k].op = "interceptor"
        /\ ~events[k].arg.threw
        /\ events[k].arg.value
NullishThrown == \E k \in 1..Len(events) : IsThrow(events[k]) /\ events[k].arg.value = Nullish
HandlerReturned(r) ==
    \E k \in 1..Len(events) :
        /\ events[k].op = "settled"
        /\ ~events[k].arg.threw
        /\ events[k].arg.value = r
HandlerThrew(e) ==
    \E k \in 1..Len(events) :
        /\ events[k].op = "settled"
        /\ events[k].arg.threw
        /\ events[k].arg.value = e
HookThrew == \E k \in 1..Len(events) : events[k].op = "afterRender" /\ events[k].arg.threw

\* ---------------------------------------------------------------- claims
\* C1 (as stated): once the dispatch function has returned, exactly one
\* response has been sent by it, with status 200 or 500.
C1_ExactlyOneEnvelope ==
    outcome = "returned" =>
        /\ Len(DispatchSends) = 1
        /\ DispatchSends[1].arg.http \in {200, 500}

\* C1 (amended): the dispatch function sends at most one response, always with
\* status 200 or 500; when it has finished it has sent exactly one, unless an
\* interceptor returned truthy, the handler returned a falsy value, or the
\* value thrown was null/undefined, in which cases it has sent none.
C1_AtMostOneEnvelope ==
    /\ Len(DispatchSends) <= 1
    /\ \A k \in 1..Len(DispatchSends) : DispatchSends[k].arg.http \in {200, 500}
    /\ Finished =>
         Len(DispatchSends) =
            IF Broke \/ HandlerReturned(UndefinedResult) \/ NullishThrown THEN 0 ELSE 1

C1_Witness ==
    /\ outcome = "returned"
    /\ HandlerReturned(ObjectResult)
    /\ HookThrew
    /\ Len(DispatchSends) = 1
    /\ DispatchSends[1].arg.http = 500

\* C2 (as stated): when the handling of a request that was passed to a route
\* has returned control, no telemetry record of the request identifier is left
\* and the last Telemetry call was clearTelemetry.
C2_TelemetryCleared ==
    (pc = "done" /\ ~IsPagePath(reqPath)) =>
        /\ telemetry = <<>>
        /\ \E k \in 1..Len(events) :
              /\ events[k] = TCall("clear", RequestProcess)
              /\ \A j \in (k + 1)..Len(events) : events[j].op # "telemetry"

\* C3: once a route middleware has called back with an error, no later
\* middleware and not the handler is invoked, the adapter sends nothing and
\* runs no after-render hook, and the error is passed to next() exactly once.
C3_MiddlewareFailure ==
    \A k \in 1..Len(MiddlewareCalls) :
        MiddlewareCalls[k].arg.err # None =>
            /\ k = Len(MiddlewareCalls)
            /\ HandlerCalls = 0
            /\ outcome = "none"
            /\ DispatchSends = <<>>
            /\ AfterRenderCalls = <<>>
            /\ pc \in {"wrapperCatch", "done"}
            /\ WrapperNexts = IF pc = "done"
                              THEN <<CallNext("wrapper", MiddlewareCalls[k].arg.err)>>
                              ELSE <<>>

C3_Witness ==
    /\ pc = "done"
    /\ Len(MiddlewareCalls) = 1
    /\ routeMiddlewares.n > 1
    /\ MiddlewareCalls[1].arg.err # None
    /\ Len(WrapperNexts) = 1

\* C4: once an interceptor has returned a truthy value, the handler is never
\* invoked, no after-render hook runs and the dispatch function sends nothing.
C4_InterceptorShortCircuit ==
    Broke =>
        /\ HandlerCalls = 0
        /\ AfterRenderCalls = <<>>
        /\ DispatchSends = <<>>
        /\ pc \in {"settled", "done"}
        /\ outcome = "returned"

C4_Witness == Broke /\ pc = "done" /\ httpAfterRender > 0

C6_Expected(r) ==
    IF r.type = "object"
    THEN <<[http |-> 200, kind |-> "json", data |-> r]>>
    ELSE IF r.truthy THEN <<[http |-> 200, kind |-> "raw", data |-> r]>>
    ELSE <<>>

\* what was sent, reduced to status, kind and payload
C6_Sent ==
    [k \in 1..Len(DispatchSends) |->
        LET a == DispatchSends[k].arg
        IN  [http |-> a.http, kind |-> a.kind,
             data |-> IF a.kind = "raw" THEN a.body.raw
                      ELSE IF a.http = 200 THEN a.body.data ELSE NoResult]]

C6_EnvelopeShape ==
    \A k \in 1..Len(DispatchSends) :
        LET a == DispatchSends[k].arg
        IN  (a.http = 200 /\ a.kind = "json") =>
                /\ a.body.status = 200
                /\ a.body.processingTime = processingTime

\* C6 (as stated): when the handler returned r and the dispatch function has
\* finished, a structured r was sent as the 200 JSON envelope with data r, any
\* other truthy r was sent unchanged as a 200 raw body, and nothing was sent
\* for a falsy r.
C6_ResultClassification ==
    \A r \in Results :
        (HandlerReturned(r) /\ Finished) =>
            C6_Sent = C6_Expected(r) /\ C6_EnvelopeShape

\* C6 (amended): the same, provided no after-render hook threw; if one threw,
\* no 200 response was sent.
C6_ResultClassificationUnlessHookThrows ==
    \A r \in Results :
        /\ (HandlerReturned(r) /\ Finished /\ ~HookThrew) =>
              C6_Sent = C6_Expected(r) /\ C6_EnvelopeShape
        /\ (HandlerReturned(r) /\ HookThrew) =>
              \A k \in 1..Len(DispatchSends) : DispatchSends[k].arg.http = 500

C6_Witness ==
    /\ pc = "done"
    /\ HandlerReturned(ResponseResult)
    /\ ~HookThrew
    /\ Len(AfterRenderCalls) = 2
    /\ Len(DispatchSends) = 1

\* C7 (as stated): every response the dispatch function sends (the structured
\* success, the raw body, the 500 error envelope) is preceded by a run of all
\* registered after-render hooks, in registration order, with that content.
C7_AfterRenderOnEveryBranch ==
    \A k \in 1..Len(events) :
        IsDispatchSend(events[k]) =>
            LET body == events[k].arg.body
                content == IF events[k].arg.kind = "raw" THEN body.raw ELSE body
                hooks == SelectSeq(SubSeq(events, 1, k - 1), IsAfterRender)
            IN  /\ Len(hooks) = httpAfterRender
                /\ \A h \in 1..Len(hooks) :
                      hooks[h].arg.i = h /\ hooks[h].arg.content = content

\* C8 (as stated): a controller with a dependency type that has no entry in
\* the provider map makes binding fail with a startup error: no instance of it
\* is constructed and none of its routes is registered.
C8_UnresolvedDependencyFailsFast ==
    \A c \in 1..bound :
        (\E k \in 1..Len(controllers[c].paramTypes) :
            controllers[c].paramTypes[k] \notin providersMap) =>
            /\ startupError # "none"
            /\ \A k \in 1..Len(instances) : instances[k].controller # c
            /\ \A k \in 1..Len(routeTable) : routeTable[k].controller # c

\* C9 (as stated): a close() called while the server is not listening (never
\* started, or already stopped) does not reject.
C9_CloseResolvesWhenNotListening ==
    \A k \in 1..Len(closeCalls) :
        ~closeCalls[k].wasListening => closeCalls[k].settled # "rejected"

\* C10: the open-connection set is exactly the set of accepted connections that
\* have neither emitted 'close' nor been destroyed by close(); every close()
\* destroyed all the connections it found tracked and left the set empty before
\* it asked the server to stop, and the set stays empty while the server is not
\* listening.
C10_OpenConnectionSet ==
    /\ openConnections = {s \in Sockets : socketState[s] = "open"}
    /\ \A k \in 1..Len(closeCalls) :
          /\ closeCalls[k].left = {}
          /\ closeCalls[k].tracked \subseteq closeCalls[k].destroyed
    /\ ~listening => openConnections = {}

C10_Witness ==
    /\ \E k \in 1..Len(closeCalls) :
          closeCalls[k].tracked = Sockets /\ closeCalls[k].settled = "resolved"
    /\ \A s \in Sockets : socketState[s] = "closed"

\* C11 (as stated): the promise of every listen() call is settled: resolved
\* when the server was bound to the parsed host and port, rejected when binding
\* failed.
C11_ListenSettles ==
    \A k \in 1..Len(listenCalls) :
        /\ listenCalls[k].settled = (IF listenCalls[k].bound THEN "resolved" ELSE "rejected")
        /\ listenCalls[k].address.host = listenCalls[k].bind[1]

C12_Indices == {params[i].index : i \in 1..Len(params)}
C12_MaxOf(S) == CHOOSE m \in S : \A x \in S : x <= m
C12_IdFirst == <<[index |-> 0, paramType |-> <<"param", "id">>],
                 [index |-> 1, paramType |-> <<"query", "q">>]>>
C12_QueryFirst == <<[index |-> 1, paramType |-> <<"query", "q">>],
                    [index |-> 0, paramType |-> <<"param", "id">>]>>

\* C12: buildRouteArgs puts the value resolved for each descriptor at
\* args[descriptor.index], whatever the order of the list; the array is as long
\* as the largest index plus one, so N for dense indices 0..N-1; the id/q
\* example gives ['42', 'foo'] in both orders.
C12_PlacedByIndex ==
    routeArgs.done =>
        /\ ~routeArgs.threw
        /\ Len(routeArgs.args) =
              IF params = <<>> THEN 0 ELSE C12_MaxOf(C12_Indices) + 1
        /\ \A i \in 1..Len(params) :
              LET seg == params[i].paramType
                  r == ResolveParam(seg[1], IF Len(seg) > 1 THEN seg[2] ELSE Undefined)
              IN  routeArgs.args[params[i].index + 1] = r.value
        /\ C12_Indices = 0..(Len(params) - 1) => Len(routeArgs.args) = Len(params)
        /\ params \in {C12_IdFirst, C12_QueryFirst} => routeArgs.args = <<"42", "foo">>

C12_Witness ==
    /\ routeArgs.done
    /\ params = C12_QueryFirst
    /\ routeArgs.args = <<"42", "foo">>

C13_IsUnknown(d) == d.paramType[1] \notin KnownKinds
C13_IsKnown(d) == ~C13_IsUnknown(d)

\* C13: a descriptor of an unknown kind gives undefined at its index and no
\* exception, and the other descriptors get what they get without it.
C13_UnknownKindIsUndefined ==
    routeArgs.done =>
        /\ ~routeArgs.threw
        /\ \A i \in 1..Len(params) :
              C13_IsUnknown(params[i]) =>
                  routeArgs.args[params[i].index + 1] = "undefined"
        /\ LET others == buildRouteArgs(SelectSeq(params, C13_IsKnown))
           IN  \A i \in 1..Len(params) :
                  C13_IsKnown(params[i]) =>
                      /\ ~others.threw
                      /\ routeArgs.args[params[i].index + 1] =
                            others.args[params[i].index + 1]

C13_Witness ==
    /\ routeArgs.done
    /\ params = <<[index |-> 0, paramType |-> <<"cookie", "sid">>],
                  [index |-> 1, paramType |-> <<"param", "id">>]>>
    /\ routeArgs.args = <<"undefined", "42">>

C14_Registrable ==
    {<<c, j>> \in (1..bound) \X (1..MaxRoutes) :
        /\ j <= Len(controllers[c].routes)
        /\ toLowerCase(controllers[c].routes[j].method) \in ExpressMethods}

\* C14: the registrations made so far are those of the controllers bound so
\* far, in registry order: an earlier controller's routes before a later
\* controller's, and one controller's routes in the order of its route list.
C14_RegistrationOrder ==
    /\ {<<routeTable[k].controller, routeTable[k].route>> : k \in 1..Len(routeTable)}
          = C14_Registrable
    /\ \A k, l \in 1..Len(routeTable) :
          k < l =>
              \/ routeTable[k].controller < routeTable[l].controller
              \/ /\ routeTable[k].controller = routeTable[l].controller
                 /\ routeTable[k].route < routeTable[l].route

C14_Witness ==
    /\ bound = 2
    /\ Len(routeTable) >= 3
    /\ routeTable[1].controller = 1
    /\ routeTable[2].controller = 1
    /\ routeTable[Len(routeTable)].controller = 2

C15_IsEnvelope(e) == e.op = "send" /\ e.arg.kind = "json"
C15_IsTelemetry(e) == e.op = "telemetry"
\* the snapshot was the last telemetry call before position k, and the call
\* before it ended 'Request Process'
C15_SnapshotAfterEnd(k) ==
    \E g \in 2..(k - 1) :
        /\ events[g] = TCall("get", RequestProcess)
        /\ events[g - 1] = TCall("end", RequestProcess)
        /\ \A h \in (g + 1)..(k - 1) : ~C15_IsTelemetry(events[h])

\* C15: a success or error envelope carries requestId and telemetry exactly
\* when the query's debug value is truthy; then requestId is the request's
\* identifier and telemetry is the snapshot taken after 'Request Process' was
\* ended, so no record of that span is open in it.
C15_DebugFields ==
    \A k \in 1..Len(events) :
        C15_IsEnvelope(events[k]) =>
            LET body == events[k].arg.body
            IN  /\ "requestId" \in DOMAIN body <=> debug
                /\ "telemetry" \in DOMAIN body <=> debug
                /\ debug =>
                     /\ body.requestId = requestId
                     /\ requestId = 1
                     /\ body.telemetry = snapshot
                     /\ C15_SnapshotAfterEnd(k)
                     /\ \E i \in 1..Len(body.telemetry) :
                           body.telemetry[i] = [label |-> RequestProcess, ended |-> TRUE]
                     /\ \A i \in 1..Len(body.telemetry) :
                           body.telemetry[i].label = RequestProcess =>
                               body.telemetry[i].ended

C15_Witness ==
    /\ debug
    /\ pc = "done"
    /\ \E k \in 1..Len(events) :
          /\ C15_IsEnvelope(events[k])
          /\ events[k].arg.http = 500
          /\ events[k].arg.body.requestId = 1
          /\ Len(events[k].arg.body.telemetry) = 2

C17_Statuses == {DispatchSends[k].arg.http : k \in 1..Len(DispatchSends)}

\* C17: the dispatch function never sends both a 200 response and a 500
\* envelope and never sends more than one response; when an after-render hook
\* threw, no 200 was sent.
C17_NeverBoth ==
    /\ ~({200, 500} \subseteq C17_Statuses)
    /\ Len(DispatchSends) <= 1
    /\ HookThrew => 200 \notin C17_Statuses

C17_Witness ==
    /\ pc = "done"
    /\ HandlerReturned(StringResult)
    /\ HookThrew
    /\ C17_Statuses = {500}

\* C16 (as stated): the path registered for a prefix and a sub-path, either of
\* which may begin or end with '/', begins with exactly one '/' and has no two
\* '/' in a row.
C16_PathNormalized ==
    registered # <<>> =>
        /\ registered[1] = "/"
        /\ \A k \in 1..(Len(registered) - 1) :
              ~(registered[k] = "/" /\ registered[k + 1] = "/")

\* the dispatch function, which holds the controller handler, has been called
C18_HandlerEntered == pc = "dispatch" \/ outcome # "none" \/ HandlerCalls > 0

\* C18: the declared middlewares are invoked in list order, one only after the
\* one before it called back without an error, and the handler is entered only
\* after all of them did.
C18_MiddlewaresInOrder ==
    /\ Len(MiddlewareCalls) <= routeMiddlewares.n
    /\ \A k \in 1..Len(MiddlewareCalls) :
          /\ MiddlewareCalls[k].arg.i = k
          /\ k < Len(MiddlewareCalls) => MiddlewareCalls[k].arg.err = None
    /\ (routeMiddlewares.declared /\ C18_HandlerEntered) =>
          /\ Len(MiddlewareCalls) = routeMiddlewares.n
          /\ \A k \in 1..Len(MiddlewareCalls) : MiddlewareCalls[k].arg.err = None
    /\ \A k \in 1..Len(events) :
          IsMiddleware(events[k]) =>
              \A h \in 1..k : events[h].op \notin {"handler", "interceptor", "settled"}

C18_Witness ==
    /\ pc = "done"
    /\ routeMiddlewares.n = 2
    /\ Len(MiddlewareCalls) = 2
    /\ HandlerCalls = 1

C19_IsInterceptor(e) == e.op = "interceptor"
C19_InterceptorCalls == SelectSeq(events, C19_IsInterceptor)
C19_Falsy(e) == ~e.arg.threw /\ e.arg.value = FALSE
\* arguments are resolved right before the 'Controller Handler' span is started
C19_ArgsResolved ==
    \E k \in 1..Len(events) : events[k] = TCall("start", ControllerHandler)

\* C19: interceptors are invoked in registration order, each only after the
\* one before it settled falsy; none is invoked after one that returned truthy;
\* arguments are resolved and the handler is invoked only after all of them
\* returned falsy.
C19_InterceptorsInOrder ==
    /\ Len(C19_InterceptorCalls) <= httpInterceptors
    /\ \A k \in 1..Len(C19_InterceptorCalls) :
          /\ C19_InterceptorCalls[k].arg.i = k
          /\ k < Len(C19_InterceptorCalls) => C19_Falsy(C19_InterceptorCalls[k])
    /\ (pc = "invoke" \/ C19_ArgsResolved \/ HandlerCalls > 0) =>
          /\ Len(C19_InterceptorCalls) = httpInterceptors
          /\ \A k \in 1..Len(C19_InterceptorCalls) : C19_Falsy(C19_InterceptorCalls[k])
    /\ \A k \in 1..Len(events) :
          C19_IsInterceptor(events[k]) =>
              \A h \in 1..k : events[h].op \notin {"handler", "settled"}
                              /\ events[h] # TCall("start", ControllerHandler)

C19_Witness ==
    /\ pc = "done"
    /\ httpInterceptors = 2
    /\ Len(C19_InterceptorCalls) = 2
    /\ HandlerCalls = 1

\* C20 (as stated): 'Controller Handler' is started right before the handler
\* is invoked and ended right after its result settles, whether it returned or
\* threw, and so before any snapshot is taken.
C20_HandlerSpanClosed ==
    \A k \in 1..Len(events) :
        /\ events[k].op = "handler" =>
              k > 1 /\ events[k - 1] = TCall("start", ControllerHandler)
        /\ events[k].op = "settled" =>
              k < Len(events) /\ events[k + 1] = TCall("end", ControllerHandler)
        /\ events[k] = TCall("get", RequestProcess) =>
              \A i \in 1..Len(snapshot) :
                  snapshot[i].label = ControllerHandler => snapshot[i].ended

\* the message the 500 envelope carries for a thrown value
C21_Message(e) == IF e.message = "" THEN "Internal Server Error" ELSE e.message

\* C21 (as stated): when an after-render hook threw, no later hook runs, no 200
\* response is sent, and the dispatch function ends by returning, having sent
\* exactly the 500 envelope with the hook's message.
C21_HookThrowConverted ==
    \A k \in 1..Len(AfterRenderCalls) :
        AfterRenderCalls[k].arg.threw =>
            /\ k = Len(AfterRenderCalls)
            /\ \A j \in 1..Len(DispatchSends) : DispatchSends[j].arg.http = 500
            /\ Finished =>
                 /\ outcome = "returned"
                 /\ Len(DispatchSends) = 1
                 /\ DispatchSends[1].arg.kind = "json"
                 /\ DispatchSends[1].arg.body.message =
                        C21_Message(AfterRenderCalls[k].arg.value)

C22_Descriptors ==
    {<<c, j>> \in (1..Len(controllers)) \X (1..MaxRoutes) :
        j <= Len(controllers[c].routes)}
C22_RegistrationsOf(c, j) ==
    {k \in 1..Len(routeTable) :
        routeTable[k].controller = c /\ routeTable[k].route = j}

\* C22 (as stated): once every controller of the registry is bound, each route
\* descriptor, whatever its method, has exactly one registration, under its
\* method.
C22_EveryDescriptorRegistered ==
    bound = Len(controllers) =>
        \A d \in C22_Descriptors :
            /\ Cardinality(C22_RegistrationsOf(d[1], d[2])) = 1
            /\ \A k \in C22_RegistrationsOf(d[1], d[2]) :
                  routeTable[k].method =
                      toLowerCase(controllers[d[1]].routes[d[2]].method)

C23_IsNextWithError(e) == e.op = "next" /\ e.arg.err # None
C23_NextsWithError == SelectSeq(events, C23_IsNextWithError)

\* C23 (as stated): next() is called with an error only for an error that a
\* route middleware gave to its completion callback, never for something
\* thrown by an interceptor, the handler or an after-render hook.
C23_NextOnlyForMiddlewareError ==
    \A k \in 1..Len(C23_NextsWithError) :
        \E j \in 1..Len(MiddlewareCalls) :
            /\ MiddlewareCalls[j].arg.err # None
            /\ MiddlewareCalls[j].arg.err = C23_NextsWithError[k].arg.err

C24_IsEndRequestProcess(e) == e = TCall("end", RequestProcess)

\* C24 (as stated): Telemetry.end('Request Process') is called at most once
\* for a request.
C24_RequestProcessEndedOnce ==
    Len(SelectSeq(events, C24_IsEndRequestProcess)) <= 1

\* the request paths that are '/' or contain '.html'
C25_PagePaths == {"/", "/index.html"}
C25_IsPageNext(e) == e.op = "next" /\ e.arg.by = "page"
C25_IsPageAnswer(e) == e.op = "send" /\ e.arg.kind \in {"render", "text"}
C25_PageNexts == SelectSeq(events, C25_IsPageNext)
C25_PageAnswers == SelectSeq(events, C25_IsPageAnswer)
C25_PastPageMiddleware == pc \notin {"arrived", "page"}

====
